---- MODULE Spec2Model ----
(***************************************************************************)
(* Model of the audio user interface of mycroft-dinkum                     *)
(* (services/audio/service/audio_ui.py): the TTS session registry, the     *)
(* per-session chunk queues, the speech thread (_speech_run) and the bus   *)
(* handlers that feed it, the background stream with its position timer,  *)
(* the ducking of the background volume, shutdown(), the handler of the    *)
(* media.ended messages, RepeatingTimer.run and the sound effects.  The    *)
(* audio HAL (audio_hal.py) is an external collaborator of this file; it   *)
(* is modelled from its interface contract.                                *)
(***************************************************************************)
EXTENDS Integers, Sequences, FiniteSets, TLC

(***************************************************************************)
(* Bounds of the model.                                                    *)
(***************************************************************************)
\* number of mycroft.tts.session.start messages delivered in a behaviour
MaxStarts == 2
\* number of mycroft.tts.chunk.start messages delivered in a behaviour
MaxChunks == 2
\* number of mycroft.tts.stop messages delivered in a behaviour
MaxStops == 1
\* number of mycroft.audio.service.* messages delivered in a behaviour
MaxStreamMsgs == 3
\* number of runs of the position timer's function in a behaviour
MaxTicks == 1
\* number of listening / speech-output messages delivered in a behaviour
MaxTriggers == 3
\* number of media.ended messages given to handle_media_finished as a whole
MaxMediaMsgs == 2
\* number of calls of its function by a RepeatingTimer in a behaviour
MaxInvocations == 3
\* number of mycroft.audio.play-sound messages delivered in a behaviour
MaxSounds == 2

\* session ids carried by the bus messages
SessionIds == {"A", "B"}
\* Python's None, as a session id (self._mycroft_session_id: Optional[str])
None == "None"
\* threads of the bus client that may run handle_tts_chunk concurrently
Handlers == {"h1"}

\* uris of the chunks: a playable local file, a local file that does not
\* exist, and a uri of another scheme
Uris == {"file:///ok.wav", "file:///missing.wav", "http://host/x.wav"}
\* (chunk_index, num_chunks) pairs carried by the chunk messages
ChunkPositions == {<<0, 2>>, <<1, 2>>}
\* duration_sec values play_foreground may return: a duration, or None (-1)
NoDuration == -1
Durations == {NoDuration, 1}

\* self.config: config["listener"]["duck_while_listening"] (in percent of the
\* full volume), config.get("confirm_listening", False) and
\* config["sounds"]["start_listening"] ("" when no sound is configured)
Config(duck_while_listening, confirm_listening, start_listening) ==
    [duck_while_listening |-> duck_while_listening,
     confirm_listening |-> confirm_listening,
     start_listening |-> start_listening]

Configs ==
    {Config(d, c, s) : d \in {0, 30, 100}, c \in BOOLEAN,
                       s \in {"", "start_listening.wav"}}

DefaultConfig == Config(30, FALSE, "start_listening.wav")

\* set_background_volume(1.0), in percent
FullVolume == 100

\* session ids carried by the mycroft.audio.service.* messages:
\* message.data.get("mycroft_session_id") is None when the field is absent
StreamIds == SessionIds \cup {None}

\* a track of a play message: a uri, or a (uri, mimetype) pair
StrTrack(uri) == [is_str |-> TRUE, uri |-> uri, mimetype |-> ""]

PairTrack(uri, mimetype) == [is_str |-> FALSE, uri |-> uri, mimetype |-> mimetype]

\* message.data.get("tracks", []) of the play messages
TrackLists ==
    { << >>,
      << PairTrack("http://host/stream", "audio/mpeg"),
         StrTrack("file:///song.mp3") >> }

\* a mycroft.audio.service.* message as it is delivered
StreamMessage(type, mycroft_session_id, tracks) ==
    [type |-> type, mycroft_session_id |-> mycroft_session_id, tracks |-> tracks]

\* values get_background_time may return, in ms: negative = unknown
BgTimes == {-1, 0}

\* ForegroundChannel (lines 17-21)
EFFECT == "EFFECT"

SPEECH == "SPEECH"

\* message.data.get("channel") of a media.ended message: a foreground
\* channel, or None when the field is absent (the background stream)
Channels == {EFFECT, SPEECH, None}

\* self.interval of a RepeatingTimer, in units of the model's clock (the
\* position timer of line 137 has an interval of 1.0 s: a unit is 0.5 s)
Interval == 2

\* the time one call of self.function may take, in the same units: less
\* than, as long as, and longer than the interval
RunTimes == 0..(Interval + 1)

\* message.data.get("uri") of the play-sound messages: a local file, a uri
\* of another scheme, the empty string, and None when the field is absent
EffectUris == {"file:///ok.wav", "http://host/x.wav", "", None}

\* message.data.get("volume") of the play-sound messages: None (-1) when
\* the field is absent, or a volume in percent
NoVolume == -1
Volumes == {NoVolume, 50}

\* a mycroft.audio.play-sound message as it is delivered, with the way its
\* handler ended: it returned, or it raised AssertionError
SoundMessage(uri, volume, mycroft_session_id, outcome) ==
    [uri |-> uri, volume |-> volume, mycroft_session_id |-> mycroft_session_id,
     outcome |-> outcome]

\* a mycroft.audio.hal.media.ended message as it is delivered
MediaMessage(channel, background, media_id) ==
    [channel |-> channel, background |-> background, media_id |-> media_id]

VARIABLES
    sessions,           \* self._sessions: dict id -> TTSSession
    sessionKeys,        \* insertion order of the keys of self._sessions
    mycroftSessionId,   \* self._mycroft_session_id
    speechReady,        \* self._speech_ready: permits of the semaphore
    isRunning,          \* self._is_running
    loopPc,             \* position of the speech thread in _speech_run
    loopSession,        \* _speech_run's local `session` (its id), or None
    loopRequest,        \* _speech_run's local `request`
    durationSec,        \* _speech_run's local `duration_sec`
    hpc,                \* position of each handle_tts_chunk invocation
    hmsg,               \* the message each handle_tts_chunk invocation holds
    halSpeech,          \* HAL: media id playing on the SPEECH channel, or None
    mediaEnded,         \* HAL: media ids with a media.ended message in flight
    events,             \* messages emitted on the bus, in order
    queued,             \* the "Queued TTS chunk" log lines (line 322), in order
    nStarts,            \* session.start messages delivered so far, per id
    nChunks,            \* chunk.start messages delivered so far
    nStops,             \* tts.stop messages delivered so far
    startMark,          \* chunks accepted for an id when its latest
                        \* session.start was delivered
    config,             \* self.config, the entries this file reads
    streamSessionId,    \* self._stream_session_id
    bgPlaylist,         \* HAL: the playlist of the background stream
    bgState,            \* HAL: "stopped", "playing" or "paused"
    bgVolume,           \* HAL: volume of the background stream as it was
                        \* last set, in percent
    bgEnded,            \* HAL: background media.ended messages in flight
    halCalls,           \* calls made to the HAL by the stream, ducking and
                        \* effect code, in order
    timerPc,            \* position of the timer thread in send_stream_position
    streamMsgs,         \* mycroft.audio.service.* messages delivered so
                        \* far, in order
    nTicks,             \* runs of send_stream_position so far
    triggers,           \* listening / speech-output messages delivered so
                        \* far, in order
    shutdownPc,         \* position of the caller of shutdown()
    timerCancelled,     \* self._bg_position_timer.cancelled
    mediaMsgs,          \* mycroft.audio.hal.media.ended messages handled by
                        \* handle_media_finished as a whole, in order
    now,                \* time.time(), counted from the start of the timer
    runPc,              \* position of a RepeatingTimer thread in run()
    secondsToWait,      \* run()'s local `seconds_to_wait`
    startTime,          \* run()'s local `start_time`
    endTime,            \* run()'s local `end_time`
    invocations,        \* the calls of self.function made by run(), in order
    soundMsgs,          \* mycroft.audio.play-sound messages delivered so
                        \* far, in order
    effectCalls         \* the play_foreground calls of _play_effect made
                        \* for them, in order

\* the background stream, the ducking and the position timer
streamVars == <<config, streamSessionId, bgPlaylist, bgState, bgVolume, bgEnded,
                halCalls, timerPc, streamMsgs, nTicks, triggers>>

shutdownVars == <<shutdownPc, timerCancelled>>

\* the logs of the messages of the handlers that are modelled on their own
sideVars == <<mediaMsgs, now, runPc, secondsToWait, startTime, endTime,
              invocations, soundMsgs, effectCalls>>

\* the sound effects
effectVars == <<soundMsgs, effectCalls>>

\* RepeatingTimer.run taken by itself
timerVars == <<now, runPc, secondsToWait, startTime, endTime, invocations>>

\* the TTS sessions and the speech thread (all but the trace of messages)
ttsVars == <<sessions, sessionKeys, mycroftSessionId, speechReady, isRunning,
             loopPc, loopSession, loopRequest, durationSec, hpc, hmsg,
             halSpeech, mediaEnded, queued, nStarts, nChunks, nStops,
             startMark>>

vars == <<sessions, sessionKeys, mycroftSessionId, speechReady, isRunning,
          loopPc, loopSession, loopRequest, durationSec, hpc, hmsg,
          halSpeech, mediaEnded, events, queued, nStarts, nChunks, nStops,
          startMark, streamVars, shutdownVars, sideVars>>

(***************************************************************************)
(* Data: TTSRequest, TTSSession, the emitted messages.                     *)
(***************************************************************************)
TTSRequest(uri, chunk_index, num_chunks) ==
    [uri |-> uri, chunk_index |-> chunk_index, num_chunks |-> num_chunks]

NoRequest == TTSRequest("", -1, -1)

\* what a handle_tts_chunk thread holds while it handles no message
NoMessage == [mycroft_session_id |-> None, request |-> NoRequest]

is_first_chunk(request) == request.chunk_index <= 0

is_last_chunk(request) == request.chunk_index >= (request.num_chunks - 1)

TTSSession(mycroft_session_id) ==
    [mycroft_session_id |-> mycroft_session_id,
     chunk_queue |-> <<>>,
     speech_finished |-> FALSE,
     is_finished |-> FALSE]

\* uri.startswith("file://")
StartsWithFileScheme(uri) == uri \in {"file:///ok.wav", "file:///missing.wav"}

\* os.path.isfile(uri[len("file://"):])
IsFile(uri) == uri = "file:///ok.wav"

SessionMessage(type, mycroft_session_id) ==
    [type |-> type, mycroft_session_id |-> mycroft_session_id]

ChunkMessage(type, mycroft_session_id, request) ==
    [type |-> type, mycroft_session_id |-> mycroft_session_id,
     chunk_index |-> request.chunk_index, num_chunks |-> request.num_chunks,
     uri |-> request.uri]

\* the two messages of _finish_tts_session, in the order it emits them
FinishTtsSession(mycroft_session_id) ==
    << SessionMessage("mycroft.tts.session.ended", mycroft_session_id),
       SessionMessage("recognizer_loop:audio_output_end", mycroft_session_id) >>

\* the sum of f over the ids
RECURSIVE SumOver(_, _)
SumOver(f, ids) ==
    IF ids = {} THEN 0
    ELSE LET id == CHOOSE x \in ids : TRUE IN f[id] + SumOver(f, ids \ {id})

StartsDelivered == SumOver(nStarts, SessionIds)

\* self._sessions.get(id)
HasSession(id) == id \in DOMAIN sessions

(***************************************************************************)
(* The state after __init__ and initialize().                              *)
(***************************************************************************)
InitTts ==
    /\ sessions = << >>
    /\ sessionKeys = << >>
    /\ mycroftSessionId = None
    /\ speechReady = 1
    /\ isRunning = TRUE
    /\ loopPc = "acquire"
    /\ loopSession = None
    /\ loopRequest = NoRequest
    /\ durationSec = NoDuration
    /\ hpc = [h \in Handlers |-> "idle"]
    /\ hmsg = [h \in Handlers |-> NoMessage]
    /\ halSpeech = None
    /\ mediaEnded = {}
    /\ events = << >>
    /\ queued = << >>
    /\ nStarts = [id \in SessionIds |-> 0]
    /\ nChunks = 0
    /\ nStops = 0
    /\ startMark = [id \in SessionIds |-> 0]
    /\ shutdownPc = "running"
    /\ timerCancelled = FALSE

\* the stream owner, the timer and the HAL's background stream at start-up,
\* under the configuration cfg
InitStream(cfg) ==
    /\ config = cfg
    /\ streamSessionId = None
    /\ bgPlaylist = << >>
    /\ bgState = "stopped"
    /\ bgVolume = FullVolume
    /\ bgEnded = 0
    /\ halCalls = << >>
    /\ timerPc = "sleep"
    /\ streamMsgs = << >>
    /\ nTicks = 0
    /\ triggers = << >>

\* no message was handled yet
InitSide ==
    /\ mediaMsgs = << >>
    /\ now = 0
    /\ runPc = "top"
    /\ secondsToWait = Interval
    /\ startTime = 0
    /\ endTime = 0
    /\ invocations = << >>
    /\ soundMsgs = << >>
    /\ effectCalls = << >>

Init == InitTts /\ InitStream(DefaultConfig) /\ InitSide

(***************************************************************************)
(* The audio HAL, from its interface contract: stop_foreground ends what   *)
(* plays on the channel; the HAL reports the end of a media with a         *)
(* mycroft.audio.hal.media.ended message, which the bus may deliver at any *)
(* later time or never (it then stays in mediaEnded); play_foreground      *)
(* replaces what plays on the channel and returns the duration, or None.   *)
(***************************************************************************)
\* the media.ended messages in flight after the SPEECH channel went silent
HalEndedAfterStop ==
    IF halSpeech # None THEN mediaEnded \cup {halSpeech} ELSE mediaEnded

\* self._ahal.stop_foreground(ForegroundChannel.SPEECH)
StopForegroundSpeech ==
    /\ halSpeech' = None
    /\ mediaEnded' = HalEndedAfterStop

\* the media playing on the SPEECH channel reaches its end
HalMediaEnd ==
    /\ halSpeech # None
    /\ StopForegroundSpeech
    /\ UNCHANGED <<sideVars, streamVars, shutdownVars, startMark, queued, sessions, sessionKeys, mycroftSessionId, speechReady,
                   isRunning, loopPc, loopSession, loopRequest, durationSec,
                   hpc, hmsg, events, nStarts, nChunks, nStops>>

(***************************************************************************)
(* The session lock.  The speech thread takes self._session_lock only in   *)
(* the `with` block of lines 367-385, which lies inside one step of the     *)
(* model (LoopWake): at none of its positions between two steps does it    *)
(* hold the lock.  A handler takes the lock for the length of its own      *)
(* `with` block, which is one step as well.                                *)
(***************************************************************************)
\* faulty variant: the `with` block reaches to the end of the iteration
LockedThroughIteration == {"dequeue", "wait", "ended"}

\* the positions of the speech thread at which it holds self._session_lock
LockedPcs == {}

\* `with self._session_lock` can be entered by a handler
SessionLockFree == loopPc \notin LockedPcs

(***************************************************************************)
(* Bus handlers.                                                           *)
(***************************************************************************)
\* _stop_tts (mycroft.tts.stop)
StopTts ==
    /\ nStops < MaxStops
    /\ SessionLockFree
    /\ nStops' = nStops + 1
    /\ mycroftSessionId' = None
    /\ StopForegroundSpeech
    /\ UNCHANGED <<sideVars, streamVars, shutdownVars, startMark, queued, sessions, sessionKeys, speechReady, isRunning, loopPc,
                   loopSession, loopRequest, durationSec, hpc, hmsg, events,
                   nStarts, nChunks>>

\* the registry after handle_tts_session_start's get-or-create and reset
SessionsAfterStart(id) ==
    IF HasSession(id)
    THEN [sessions EXCEPT ![id].is_finished = FALSE]
    ELSE sessions @@ (id :> TTSSession(id))

\* faulty variant: every session.start counts as the start of another session
IsAlwaysDifferentSession(id) == TRUE

\* is_different_session (line 274)
IsDifferentSession(id) == id # mycroftSessionId

\* the chunks of session id that passed the check of line 302 so far
Accepted(id) ==
    Len(SelectSeq(queued, LAMBDA m : m.mycroft_session_id = id))
      + Cardinality({h \in Handlers :
                       hpc[h] = "checked" /\ hmsg[h].mycroft_session_id = id})

\* handle_tts_session_start (mycroft.tts.session.start)
HandleTtsSessionStart(id) ==
    /\ StartsDelivered < MaxStarts
    /\ SessionLockFree
    /\ nStarts' = [nStarts EXCEPT ![id] = @ + 1]
    /\ startMark' = [startMark EXCEPT ![id] = Accepted(id)]
    /\ sessions' = SessionsAfterStart(id)
    /\ sessionKeys' = IF HasSession(id) THEN sessionKeys ELSE Append(sessionKeys, id)
    /\ mycroftSessionId' = id
    /\ IF IsDifferentSession(id)
       THEN StopForegroundSpeech
       ELSE UNCHANGED <<halSpeech, mediaEnded>>
    /\ UNCHANGED <<sideVars, streamVars, shutdownVars, queued, speechReady, isRunning, loopPc, loopSession, loopRequest,
                   durationSec, hpc, hmsg, events, nChunks, nStops>>

\* faulty variant: the check of line 302 left out, every chunk is accepted
ChunkAlwaysMatches(id) == TRUE

\* the test of line 302, negated: the chunk belongs to the current session
ChunkMatchesSession(id) == id = mycroftSessionId

\* handle_tts_chunk, lines 295-309: a bus thread takes the message and
\* checks its session id under the session lock
ChunkCheck(h, id, uri, pos) ==
    /\ hpc[h] = "idle"
    /\ SessionLockFree
    /\ nChunks < MaxChunks
    /\ nChunks' = nChunks + 1
    /\ IF ChunkMatchesSession(id)
       THEN /\ hpc' = [hpc EXCEPT ![h] = "checked"]
            /\ hmsg' = [hmsg EXCEPT ![h] = [mycroft_session_id |-> id,
                                request |-> TTSRequest(uri, pos[1], pos[2])]]
       ELSE UNCHANGED <<hpc, hmsg>>
    /\ UNCHANGED <<sideVars, streamVars, shutdownVars, startMark, queued, sessions, sessionKeys, mycroftSessionId, speechReady,
                   isRunning, loopPc, loopSession, loopRequest, durationSec,
                   halSpeech, mediaEnded, events, nStarts, nStops>>

\* session.chunk_queue.put(request)
QueuePut(queue, request) == Append(queue, request)

\* handle_tts_chunk, lines 311-331: lookup, put and release, outside the lock
ChunkPut(h) ==
    /\ hpc[h] = "checked"
    /\ LET id == hmsg[h].mycroft_session_id IN
       IF HasSession(id)
       THEN /\ sessions' = [sessions EXCEPT ![id].chunk_queue =
                               QueuePut(@, hmsg[h].request)]
            /\ speechReady' = speechReady + 1
            /\ queued' = Append(queued, hmsg[h])
       ELSE UNCHANGED <<sessions, speechReady, queued>>
    /\ hpc' = [hpc EXCEPT ![h] = "idle"]
    /\ hmsg' = [hmsg EXCEPT ![h] = NoMessage]
    /\ UNCHANGED <<sideVars, streamVars, shutdownVars, startMark, sessionKeys,
                   mycroftSessionId, isRunning, loopPc, loopSession,
                   loopRequest, durationSec, halSpeech, mediaEnded, events,
                   nStarts, nChunks, nStops>>

\* handle_media_finished, channel == SPEECH (mycroft.audio.hal.media.ended)
HandleMediaFinished(media_id) ==
    /\ media_id \in mediaEnded
    /\ mediaEnded' = mediaEnded \ {media_id}
    /\ sessions' = IF HasSession(media_id)
                   THEN [sessions EXCEPT ![media_id].speech_finished = TRUE]
                   ELSE sessions
    /\ UNCHANGED <<sideVars, streamVars, shutdownVars, startMark, queued, sessionKeys, mycroftSessionId, speechReady, isRunning,
                   loopPc, loopSession, loopRequest, durationSec, hpc, hmsg,
                   halSpeech, events, nStarts, nChunks, nStops>>

(***************************************************************************)
(* The speech thread, _speech_run.                                         *)
(***************************************************************************)
\* `while self._is_running`: where the thread goes when an iteration ends
LoopTop == IF isRunning THEN "acquire" ELSE "exited"

\* faulty variant: the clean-up finishes a session without looking at is_finished
StaleAlwaysFinished(session) == TRUE

\* `if not cancelled_session.is_finished` (line 379)
StaleNeedsFinish(session) == ~session.is_finished

\* the messages of the clean-up loop of lines 374-385 over the keys `keys`
RECURSIVE CleanupMessages(_)
CleanupMessages(keys) ==
    IF keys = << >> THEN << >>
    ELSE LET session_id == Head(keys) IN
         (IF session_id # mycroftSessionId /\ StaleNeedsFinish(sessions[session_id])
          THEN FinishTtsSession(session_id)
          ELSE << >>) \o CleanupMessages(Tail(keys))

\* lines 365-385: acquire the semaphore; under the session lock resolve the
\* current session and clean up every other session
LoopWake ==
    /\ loopPc = "acquire"
    /\ speechReady > 0
    /\ speechReady' = speechReady - 1
    /\ IF ~HasSession(mycroftSessionId)
       THEN /\ loopPc' = LoopTop
            /\ loopSession' = None
            /\ UNCHANGED <<sessions, sessionKeys, events>>
       ELSE /\ loopPc' = "dequeue"
            /\ loopSession' = mycroftSessionId
            /\ sessions' = [id \in {mycroftSessionId} |-> sessions[id]]
            /\ sessionKeys' = << mycroftSessionId >>
            /\ events' = events \o CleanupMessages(sessionKeys)
    /\ UNCHANGED <<sideVars, streamVars, shutdownVars, startMark, queued, mycroftSessionId, isRunning, loopRequest, durationSec, hpc,
                   hmsg, halSpeech, mediaEnded, nStarts, nChunks, nStops>>

\* faulty variant: the newest request is taken (a LIFO queue)
QueueGetNewest(queue) == queue[Len(queue)]

\* session.chunk_queue.get(): the request taken from the queue
QueueGet(queue) == Head(queue)

\* faulty variant: the file is played without the isfile test
FileAssumedPlayable(request) == TRUE

\* `if os.path.isfile(file_path)` (line 418)
FileIsPlayable(request) == IsFile(request.uri)

\* lines 387-389: the queue of the session is empty, next iteration
LoopNoChunks ==
    /\ loopPc = "dequeue"
    /\ sessions[loopSession].chunk_queue = << >>
    /\ loopPc' = LoopTop
    /\ loopSession' = None
    /\ UNCHANGED <<sideVars, streamVars, shutdownVars, startMark, queued, sessions, sessionKeys, mycroftSessionId, speechReady,
                   isRunning, loopRequest, durationSec, hpc, hmsg, halSpeech,
                   mediaEnded, events, nStarts, nChunks, nStops>>

\* lines 391-401: a request whose uri fails the assert; the exception leaves
\* the while loop and is logged by the handler of line 459
LoopAssertFails ==
    /\ loopPc = "dequeue"
    /\ sessions[loopSession].chunk_queue # << >>
    /\ LET request == QueueGet(sessions[loopSession].chunk_queue) IN
       /\ ~StartsWithFileScheme(request.uri)
       /\ sessions' = [sessions EXCEPT ![loopSession].chunk_queue = Tail(@)]
       /\ events' = Append(events,
              SessionMessage("recognizer_loop:audio_output_start", loopSession))
       /\ loopRequest' = request
    /\ loopPc' = "exited"
    /\ UNCHANGED <<sideVars, streamVars, shutdownVars, startMark, queued, sessionKeys, mycroftSessionId, speechReady, isRunning,
                   loopSession, durationSec, hpc, hmsg, halSpeech, mediaEnded,
                   nStarts, nChunks, nStops>>

\* lines 391-438: take a request, emit audio_output_start and chunk.started,
\* clear speech_finished, play the file if it exists
LoopPlay ==
    /\ loopPc = "dequeue"
    /\ sessions[loopSession].chunk_queue # << >>
    /\ LET request == QueueGet(sessions[loopSession].chunk_queue) IN
       /\ StartsWithFileScheme(request.uri)
       /\ sessions' = [sessions EXCEPT ![loopSession].chunk_queue = Tail(@),
                                       ![loopSession].speech_finished = FALSE]
       /\ events' = events \o
              << SessionMessage("recognizer_loop:audio_output_start", loopSession),
                 ChunkMessage("mycroft.tts.chunk.started", loopSession, request) >>
       /\ loopRequest' = request
       /\ IF FileIsPlayable(request)
          THEN \E duration \in Durations :
                  /\ durationSec' = duration
                  /\ halSpeech' = IF duration # NoDuration THEN loopSession ELSE halSpeech
                  /\ loopPc' = IF duration # NoDuration THEN "wait" ELSE "ended"
          ELSE /\ durationSec' = NoDuration
               /\ halSpeech' = halSpeech
               /\ loopPc' = "ended"
    /\ UNCHANGED <<sideVars, streamVars, shutdownVars, startMark, queued, sessionKeys, mycroftSessionId, speechReady, isRunning,
                   loopSession, hpc, hmsg, mediaEnded, nStarts, nChunks, nStops>>

\* session.speech_finished.wait(timeout) returns because the event is set
LoopWaitFinished ==
    /\ loopPc = "wait"
    /\ sessions[loopSession].speech_finished
    /\ loopPc' = "ended"
    /\ UNCHANGED <<sideVars, streamVars, shutdownVars, startMark, queued, sessions, sessionKeys, mycroftSessionId, speechReady,
                   isRunning, loopSession, loopRequest, durationSec, hpc, hmsg,
                   halSpeech, mediaEnded, events, nStarts, nChunks, nStops>>

\* faulty variant: wait() without a timeout never returns on its own
LoopWaitWithoutTimeout ==
    /\ loopPc = "wait"
    /\ FALSE
    /\ UNCHANGED vars

\* session.speech_finished.wait(timeout) returns because duration_sec + 0.5
\* seconds have passed
LoopWaitTimeout ==
    /\ loopPc = "wait"
    /\ loopPc' = "ended"
    /\ UNCHANGED <<sideVars, streamVars, shutdownVars, startMark, queued, sessions, sessionKeys, mycroftSessionId, speechReady,
                   isRunning, loopSession, loopRequest, durationSec, hpc, hmsg,
                   halSpeech, mediaEnded, events, nStarts, nChunks, nStops>>

\* faulty variant: the session is finished after any chunk, not only the last
NeedsFinishAfterAnyChunk(request, session) == ~session.is_finished

\* `if request.is_last_chunk and (not session.is_finished)` (line 453)
NeedsFinish(request, session) == is_last_chunk(request) /\ ~session.is_finished

\* lines 440-457: emit chunk.ended; finish the session after its last chunk
LoopEnded ==
    /\ loopPc = "ended"
    /\ IF NeedsFinish(loopRequest, sessions[loopSession])
       THEN /\ sessions' = [sessions EXCEPT ![loopSession].is_finished = TRUE]
            /\ events' = Append(events,
                   ChunkMessage("mycroft.tts.chunk.ended", loopSession, loopRequest))
                   \o FinishTtsSession(loopSession)
       ELSE /\ sessions' = sessions
            /\ events' = Append(events,
                   ChunkMessage("mycroft.tts.chunk.ended", loopSession, loopRequest))
    /\ loopPc' = LoopTop
    /\ loopSession' = None
    /\ loopRequest' = NoRequest
    /\ durationSec' = NoDuration
    /\ UNCHANGED <<sideVars, streamVars, shutdownVars, startMark, queued, sessionKeys, mycroftSessionId, speechReady, isRunning, hpc,
                   hmsg, halSpeech, mediaEnded, nStarts, nChunks, nStops>>

(***************************************************************************)
(* The specification.                                                      *)
(***************************************************************************)
SpeechThread ==
    \/ LoopWake
    \/ LoopNoChunks
    \/ LoopAssertFails
    \/ LoopPlay
    \/ LoopWaitFinished
    \/ LoopWaitTimeout
    \/ LoopEnded

ChunkHandler(h) ==
    \/ \E id \in SessionIds, uri \in Uris, pos \in ChunkPositions :
          ChunkCheck(h, id, uri, pos)
    \/ ChunkPut(h)

Next ==
    \/ SpeechThread
    \/ \E h \in Handlers : ChunkHandler(h)
    \/ \E id \in SessionIds : HandleTtsSessionStart(id)
    \/ StopTts
    \/ \E media_id \in SessionIds : HandleMediaFinished(media_id)
    \/ HalMediaEnd

Spec == Init /\ [][Next]_vars

\* the threads of the service keep running: the speech thread takes a step
\* whenever it can, and a handler that passed the check finishes.  Nothing
\* is assumed of the bus (new messages, delivery of media.ended) or the HAL.
Fairness ==
    /\ WF_vars(SpeechThread)
    /\ \A h \in Handlers : WF_vars(ChunkPut(h))

FairSpec == Spec /\ Fairness

(***************************************************************************)
(* The background stream of the HAL, from its interface contract:          *)
(* start_background plays a playlist, stop_background tears the stream     *)
(* down, pause_background and resume_background halt and continue it where *)
(* it is, is_background_playing tells whether it plays, and                *)
(* get_background_time returns its position in ms, negative when unknown.  *)
(* When the playlist reaches its end the HAL sends a media.ended message   *)
(* with background = True.                                                 *)
(***************************************************************************)
\* the stream after self._ahal.pause_background()
PausedState == IF bgState = "playing" THEN "paused" ELSE bgState

\* the stream after self._ahal.resume_background()
ResumedState == IF bgState = "paused" THEN "playing" ELSE bgState

\* self._ahal.is_background_playing()
IsBackgroundPlaying == bgState = "playing"

\* the playlist of the background stream reaches its end
HalBackgroundEnd ==
    /\ bgState = "playing"
    /\ bgState' = "stopped"
    /\ bgEnded' = bgEnded + 1
    /\ UNCHANGED <<sideVars, ttsVars, shutdownVars, events, config, streamSessionId,
                   bgPlaylist, bgVolume, halCalls, timerPc, streamMsgs,
                   nTicks, triggers>>

(***************************************************************************)
(* The handlers of the background stream.                                  *)
(***************************************************************************)
\* lines 497-505: the uri of each track
UriPlaylist(tracks) == [i \in 1..Len(tracks) |-> tracks[i].uri]

\* handle_stream_play (mycroft.audio.service.play)
HandleStreamPlay(id, tracks) ==
    /\ Len(streamMsgs) < MaxStreamMsgs
    /\ streamMsgs' = Append(streamMsgs,
           StreamMessage("mycroft.audio.service.play", id, tracks))
    /\ IF tracks = << >>
       THEN UNCHANGED <<streamSessionId, bgPlaylist, bgState, halCalls, events>>
       ELSE /\ halCalls' = halCalls \o << "stop_background", "start_background" >>
            /\ streamSessionId' = id
            /\ bgPlaylist' = UriPlaylist(tracks)
            /\ bgState' = "playing"
            /\ events' = Append(events,
                   SessionMessage("mycroft.audio.service.playing", id))
    /\ UNCHANGED <<sideVars, ttsVars, shutdownVars, config, bgVolume, bgEnded, timerPc,
                   nTicks, triggers>>

\* faulty variant: the session id of the message is not compared
AnyoneOwnsStream(id) == TRUE

\* `mycroft_session_id == self._stream_session_id` (lines 527, 540, 553)
OwnsStream(id) == id = streamSessionId

\* handle_stream_pause (mycroft.audio.service.pause)
HandleStreamPause(id) ==
    /\ Len(streamMsgs) < MaxStreamMsgs
    /\ streamMsgs' = Append(streamMsgs,
           StreamMessage("mycroft.audio.service.pause", id, << >>))
    /\ IF OwnsStream(id)
       THEN /\ halCalls' = Append(halCalls, "pause_background")
            /\ bgState' = PausedState
            /\ events' = Append(events,
                   SessionMessage("mycroft.audio.service.paused", id))
       ELSE UNCHANGED <<halCalls, bgState, events>>
    /\ UNCHANGED <<sideVars, ttsVars, shutdownVars, config, streamSessionId, bgPlaylist,
                   bgVolume, bgEnded, timerPc, nTicks, triggers>>

\* handle_stream_resume (mycroft.audio.service.resume)
HandleStreamResume(id) ==
    /\ Len(streamMsgs) < MaxStreamMsgs
    /\ streamMsgs' = Append(streamMsgs,
           StreamMessage("mycroft.audio.service.resume", id, << >>))
    /\ IF OwnsStream(id)
       THEN /\ halCalls' = Append(halCalls, "resume_background")
            /\ bgState' = ResumedState
            /\ events' = Append(events,
                   SessionMessage("mycroft.audio.service.resumed", id))
       ELSE UNCHANGED <<halCalls, bgState, events>>
    /\ UNCHANGED <<sideVars, ttsVars, shutdownVars, config, streamSessionId, bgPlaylist,
                   bgVolume, bgEnded, timerPc, nTicks, triggers>>

\* faulty variant: stop tears the stream down
StopCallsStopBackground == "stop_background"

\* the HAL call of handle_stream_stop (line 558)
StopCall == "pause_background"

\* the stream after the HAL call `call` of handle_stream_stop
StateAfterStopCall(call) ==
    IF call = "stop_background" THEN "stopped" ELSE PausedState

\* the playlist after the HAL call `call` of handle_stream_stop
PlaylistAfterStopCall(call) ==
    IF call = "stop_background" THEN << >> ELSE bgPlaylist

\* handle_stream_stop (mycroft.audio.service.stop)
HandleStreamStop(id) ==
    /\ Len(streamMsgs) < MaxStreamMsgs
    /\ streamMsgs' = Append(streamMsgs,
           StreamMessage("mycroft.audio.service.stop", id, << >>))
    /\ IF OwnsStream(id)
       THEN /\ halCalls' = Append(halCalls, StopCall)
            /\ bgState' = StateAfterStopCall(StopCall)
            /\ bgPlaylist' = PlaylistAfterStopCall(StopCall)
            /\ events' = Append(events,
                   SessionMessage("mycroft.audio.service.stopped", id))
       ELSE UNCHANGED <<halCalls, bgState, bgPlaylist, events>>
    /\ UNCHANGED <<sideVars, ttsVars, shutdownVars, config, streamSessionId, bgVolume,
                   bgEnded, timerPc, nTicks, triggers>>

\* handle_media_finished, background == True (lines 351-359)
HandleBackgroundFinished ==
    /\ bgEnded > 0
    /\ bgEnded' = bgEnded - 1
    /\ events' = Append(events,
           SessionMessage("mycroft.audio.queue_end", streamSessionId))
    /\ UNCHANGED <<sideVars, ttsVars, shutdownVars, config, streamSessionId, bgPlaylist,
                   bgState, bgVolume, halCalls, timerPc, streamMsgs, nTicks,
                   triggers>>

(***************************************************************************)
(* The position timer: RepeatingTimer.run calls send_stream_position once  *)
(* per interval, until the timer is cancelled.                             *)
(***************************************************************************)
PositionMessage(mycroft_session_id, position_ms) ==
    [type |-> "mycroft.audio.service.position",
     mycroft_session_id |-> mycroft_session_id,
     position_ms |-> position_ms]

\* lines 86-98 and 568-569: the timer wakes and send_stream_position asks
\* the HAL whether the stream plays
TimerCheck ==
    /\ timerPc = "sleep"
    /\ ~timerCancelled
    /\ nTicks < MaxTicks
    /\ nTicks' = nTicks + 1
    /\ timerPc' = IF IsBackgroundPlaying THEN "checked" ELSE "sleep"
    /\ UNCHANGED <<sideVars, ttsVars, shutdownVars, events, config, streamSessionId,
                   bgPlaylist, bgState, bgVolume, bgEnded, halCalls,
                   streamMsgs, triggers>>

\* `if position_ms >= 0` (line 572)
PositionIsKnown(position_ms) == position_ms >= 0

\* lines 571-581: read the position and send it
TimerEmit ==
    /\ timerPc = "checked"
    /\ timerPc' = "sleep"
    /\ \E position_ms \in BgTimes :
          IF PositionIsKnown(position_ms)
          THEN events' = Append(events,
                   PositionMessage(streamSessionId, position_ms))
          ELSE events' = events
    /\ UNCHANGED <<sideVars, ttsVars, shutdownVars, config, streamSessionId, bgPlaylist,
                   bgState, bgVolume, bgEnded, halCalls, streamMsgs, nTicks,
                   triggers>>

StreamNext ==
    \/ \E id \in StreamIds, tracks \in TrackLists : HandleStreamPlay(id, tracks)
    \/ \E id \in StreamIds : HandleStreamPause(id)
    \/ \E id \in StreamIds : HandleStreamResume(id)
    \/ \E id \in StreamIds : HandleStreamStop(id)
    \/ HandleBackgroundFinished
    \/ HalBackgroundEnd

\* the service with no TTS traffic: stream messages and the HAL's stream
StreamSpec == Init /\ [][StreamNext]_vars

PositionTimer ==
    \/ TimerCheck
    \/ TimerEmit

PositionNext ==
    \/ StreamNext
    \/ PositionTimer

\* the same, with the position timer running
PositionSpec == Init /\ [][PositionNext]_vars

(***************************************************************************)
(* Ducking: the listening and speech-output messages.                      *)
(***************************************************************************)
\* faulty variant: the duck factor is taken off the volume as it is
CumulativeDuckedVolume == bgVolume - config.duck_while_listening

\* 1.0 - self.config["listener"]["duck_while_listening"], in percent
DuckedVolume == FullVolume - config.duck_while_listening

\* self._start_listening_uri (lines 129-135), "" for None
StartListeningUri ==
    IF config.start_listening # ""
    THEN "file://" \o config.start_listening
    ELSE ""

\* handle_start_listening (recognizer_loop:record_begin): _duck_volume,
\* _stop_tts, and the listening sound if it is configured
HandleStartListening ==
    /\ Len(triggers) < MaxTriggers
    /\ SessionLockFree
    /\ triggers' = Append(triggers, "recognizer_loop:record_begin")
    /\ bgVolume' = DuckedVolume
    /\ mycroftSessionId' = None
    /\ StopForegroundSpeech
    /\ halCalls' = halCalls \o << "set_background_volume" >> \o
          (IF StartListeningUri # "" /\ config.confirm_listening
           THEN << "play_foreground" >> ELSE << >>)
    /\ UNCHANGED <<sessions, sessionKeys, speechReady, isRunning, loopPc,
                   loopSession, loopRequest, durationSec, hpc, hmsg, queued,
                   nStarts, nChunks, nStops, startMark, sideVars, shutdownVars, events,
                   config, streamSessionId, bgPlaylist, bgState, bgEnded,
                   timerPc, streamMsgs, nTicks>>

\* handle_end_listening (recognizer_loop:record_end): _unduck_volume
HandleEndListening ==
    /\ Len(triggers) < MaxTriggers
    /\ triggers' = Append(triggers, "recognizer_loop:record_end")
    /\ bgVolume' = FullVolume
    /\ halCalls' = Append(halCalls, "set_background_volume")
    /\ UNCHANGED <<sideVars, ttsVars, shutdownVars, events, config, streamSessionId,
                   bgPlaylist, bgState, bgEnded, timerPc, streamMsgs, nTicks>>

\* handle_tts_started (recognizer_loop:audio_output_start): _duck_volume
HandleTtsStarted ==
    /\ Len(triggers) < MaxTriggers
    /\ triggers' = Append(triggers, "recognizer_loop:audio_output_start")
    /\ bgVolume' = DuckedVolume
    /\ halCalls' = Append(halCalls, "set_background_volume")
    /\ UNCHANGED <<sideVars, ttsVars, shutdownVars, events, config, streamSessionId,
                   bgPlaylist, bgState, bgEnded, timerPc, streamMsgs, nTicks>>

\* handle_tts_finished (recognizer_loop:audio_output_end): _unduck_volume
HandleTtsFinished ==
    /\ Len(triggers) < MaxTriggers
    /\ triggers' = Append(triggers, "recognizer_loop:audio_output_end")
    /\ bgVolume' = FullVolume
    /\ halCalls' = Append(halCalls, "set_background_volume")
    /\ UNCHANGED <<sideVars, ttsVars, shutdownVars, events, config, streamSessionId,
                   bgPlaylist, bgState, bgEnded, timerPc, streamMsgs, nTicks>>

\* the service started under any configuration
DuckInit == InitTts /\ InitSide /\ \E cfg \in Configs : InitStream(cfg)

DuckNext ==
    \/ HandleStartListening
    \/ HandleEndListening
    \/ HandleTtsStarted
    \/ HandleTtsFinished

\* the service with listening and speech-output messages only
DuckSpec == DuckInit /\ [][DuckNext]_vars

ListenNext ==
    \/ Next
    \/ HandleStartListening

\* the TTS service with recognizer_loop:record_begin messages next to the
\* TTS messages
ListenSpec == Init /\ [][ListenNext]_vars

(***************************************************************************)
(* shutdown().  Its statements run in the caller's thread, next to the     *)
(* speech thread and to the handlers: each statement that touches shared   *)
(* state is a step.  _detach_events removes the handlers from the bus; an  *)
(* invocation the bus has dispatched before may still run afterwards, so   *)
(* the handlers stay enabled.                                              *)
(***************************************************************************)
\* line 189: self._is_running = False
ShutdownSetFlag ==
    /\ shutdownPc = "running"
    /\ shutdownPc' = "flagged"
    /\ isRunning' = FALSE
    /\ UNCHANGED <<sideVars, streamVars, timerCancelled, startMark, queued, sessions,
                   sessionKeys, mycroftSessionId, speechReady, loopPc,
                   loopSession, loopRequest, durationSec, hpc, hmsg,
                   halSpeech, mediaEnded, events, nStarts, nChunks, nStops>>

\* lines 190-193: clear the current session id, cancel the position timer,
\* detach the handlers
ShutdownClearSession ==
    /\ shutdownPc = "flagged"
    /\ shutdownPc' = "cleared"
    /\ mycroftSessionId' = None
    /\ timerCancelled' = TRUE
    /\ UNCHANGED <<sideVars, streamVars, startMark, queued, sessions, sessionKeys,
                   speechReady, isRunning, loopPc, loopSession, loopRequest,
                   durationSec, hpc, hmsg, halSpeech, mediaEnded, events,
                   nStarts, nChunks, nStops>>

\* line 196: self._ahal.stop_foreground(ForegroundChannel.SPEECH)
ShutdownStopSpeech ==
    /\ shutdownPc = "cleared"
    /\ shutdownPc' = "stopped"
    /\ StopForegroundSpeech
    /\ UNCHANGED <<sideVars, streamVars, timerCancelled, startMark, queued, sessions,
                   sessionKeys, mycroftSessionId, speechReady, isRunning,
                   loopPc, loopSession, loopRequest, durationSec, hpc, hmsg,
                   events, nStarts, nChunks, nStops>>

\* faulty variant: shutdown does not release the semaphore
PermitsIfNotReleased == speechReady

\* the permits after self._speech_ready.release() (line 197)
PermitsAfterRelease == speechReady + 1

\* line 197: self._speech_ready.release()
ShutdownRelease ==
    /\ shutdownPc = "stopped"
    /\ shutdownPc' = "released"
    /\ speechReady' = PermitsAfterRelease
    /\ UNCHANGED <<sideVars, streamVars, timerCancelled, startMark, queued, sessions,
                   sessionKeys, mycroftSessionId, isRunning, loopPc,
                   loopSession, loopRequest, durationSec, hpc, hmsg,
                   halSpeech, mediaEnded, events, nStarts, nChunks, nStops>>

\* lines 198-199: self._speech_thread.join() returns when the thread ended
ShutdownJoin ==
    /\ shutdownPc = "released"
    /\ loopPc = "exited"
    /\ shutdownPc' = "joined"
    /\ UNCHANGED <<sideVars, streamVars, timerCancelled, ttsVars, events>>

\* line 201: self._ahal.shutdown()
ShutdownHal ==
    /\ shutdownPc = "joined"
    /\ shutdownPc' = "down"
    /\ halCalls' = Append(halCalls, "shutdown")
    /\ UNCHANGED <<sideVars, timerCancelled, ttsVars, events, config, streamSessionId,
                   bgPlaylist, bgState, bgVolume, bgEnded, timerPc,
                   streamMsgs, nTicks, triggers>>

Shutdown ==
    \/ ShutdownSetFlag
    \/ ShutdownClearSession
    \/ ShutdownStopSpeech
    \/ ShutdownRelease
    \/ ShutdownJoin
    \/ ShutdownHal

ShutdownNext ==
    \/ SpeechThread
    \/ \E h \in Handlers : ChunkHandler(h)
    \/ \E id \in SessionIds : HandleTtsSessionStart(id)
    \/ \E media_id \in SessionIds : HandleMediaFinished(media_id)
    \/ HalMediaEnd
    \/ Shutdown

\* the TTS service with a shutdown at any moment (shutdown clears the
\* current session and stops the speech as a tts.stop does)
ShutdownSpec == Init /\ [][ShutdownNext]_vars

\* the speech thread and the caller of shutdown keep running; nothing is
\* assumed of the bus or the HAL
ShutdownFairness ==
    /\ WF_vars(SpeechThread)
    /\ WF_vars(Shutdown)

FairShutdownSpec == ShutdownSpec /\ ShutdownFairness

(***************************************************************************)
(* handle_media_finished as a whole: any mycroft.audio.hal.media.ended     *)
(* message the bus may deliver, whatever its channel, background flag and  *)
(* media id.                                                               *)
(***************************************************************************)
\* faulty variant: the background flag is tested before the channel
BackgroundFirstBranch(channel, background) ==
    IF background THEN "background"
    ELSE IF channel = SPEECH THEN "speech" ELSE "none"

\* the branch the `if` / `elif` of lines 345 and 351 selects
MediaBranch(channel, background) ==
    IF channel = SPEECH THEN "speech"
    ELSE IF background THEN "background" ELSE "none"

\* handle_media_finished (lines 339-359)
HandleMediaEnded(channel, background, media_id) ==
    /\ Len(mediaMsgs) < MaxMediaMsgs
    /\ mediaMsgs' = Append(mediaMsgs, MediaMessage(channel, background, media_id))
    /\ LET branch == MediaBranch(channel, background) IN
       /\ sessions' = IF branch = "speech" /\ HasSession(media_id)
                      THEN [sessions EXCEPT ![media_id].speech_finished = TRUE]
                      ELSE sessions
       /\ events' = IF branch = "background"
                    THEN Append(events,
                             SessionMessage("mycroft.audio.queue_end",
                                            streamSessionId))
                    ELSE events
    /\ UNCHANGED <<effectVars, timerVars, streamVars, shutdownVars, startMark, queued,
                   sessionKeys, mycroftSessionId, speechReady, isRunning,
                   loopPc, loopSession, loopRequest, durationSec, hpc, hmsg,
                   halSpeech, mediaEnded, nStarts, nChunks, nStops>>

MediaNext ==
    \/ \E channel \in Channels, background \in BOOLEAN, media_id \in StreamIds :
          HandleMediaEnded(channel, background, media_id)
    \/ \E id \in SessionIds : HandleTtsSessionStart(id)
    \/ \E id \in StreamIds, tracks \in TrackLists : HandleStreamPlay(id, tracks)

\* the service with registered sessions and a stream owner, and media.ended
\* messages of every kind
MediaSpec == Init /\ [][MediaNext]_vars

(***************************************************************************)
(* RepeatingTimer.run, for any function: a call of the function takes some *)
(* time and returns or raises an exception.  Time passes in time.sleep and *)
(* in the function only: sleep(d) returns d later, the other statements    *)
(* of run() take no time.  cancel() may be called at any moment.           *)
(***************************************************************************)
\* max(0, x) (line 109)
Max0(x) == IF x > 0 THEN x ELSE 0

\* faulty variant: the run time of the function is not taken into account
UncorrectedWait(seconds_elapsed) == Interval

\* line 109: seconds_to_wait after a call that took seconds_elapsed
SecondsToWait(seconds_elapsed) == Max0(Interval - seconds_elapsed)

\* faulty variant: no try / except around the call, an exception ends run()
PcIfUncaught(raised) == IF raised THEN "done" ELSE "ran"

\* lines 97-102: where run() goes on after the call of the function, which
\* returned or raised an exception that line 99 caught
PcAfterFunction(raised) == "ran"

\* a call of the function: when it began, how long it ran, whether it
\* raised, and whether cancel() had been called when it began
Invocation(start_time, run_time, raised, cancelled) ==
    [start_time |-> start_time, run_time |-> run_time, raised |-> raised,
     cancelled |-> cancelled]

\* lines 87-90: leave the loop if cancelled, else sleep seconds_to_wait
TimerSleep ==
    /\ runPc = "top"
    /\ timerCancelled \/ Len(invocations) < MaxInvocations
    /\ IF timerCancelled
       THEN /\ runPc' = "done"
            /\ now' = now
       ELSE /\ runPc' = "woke"
            /\ now' = now + secondsToWait
    /\ UNCHANGED <<effectVars, mediaMsgs, secondsToWait, startTime, endTime, invocations,
                   ttsVars, streamVars, shutdownVars, events>>

\* lines 92-95: leave the loop if cancelled, else take the start time
TimerStart ==
    /\ runPc = "woke"
    /\ IF timerCancelled
       THEN /\ runPc' = "done"
            /\ startTime' = startTime
       ELSE /\ runPc' = "calling"
            /\ startTime' = now
    /\ UNCHANGED <<effectVars, mediaMsgs, now, secondsToWait, endTime, invocations,
                   ttsVars, streamVars, shutdownVars, events>>

\* lines 97-102: call the function and take the end time
TimerCall(run_time, raised) ==
    /\ runPc = "calling"
    /\ invocations' = Append(invocations,
           Invocation(now, run_time, raised, timerCancelled))
    /\ now' = now + run_time
    /\ endTime' = now + run_time
    /\ runPc' = PcAfterFunction(raised)
    /\ UNCHANGED <<effectVars, mediaMsgs, secondsToWait, startTime, ttsVars, streamVars,
                   shutdownVars, events>>

\* lines 104-109: leave the loop if cancelled, else compute the next wait
TimerWait ==
    /\ runPc = "ran"
    /\ IF timerCancelled
       THEN /\ runPc' = "done"
            /\ secondsToWait' = secondsToWait
       ELSE /\ runPc' = "top"
            /\ secondsToWait' = SecondsToWait(endTime - startTime)
    /\ UNCHANGED <<effectVars, mediaMsgs, now, startTime, endTime, invocations, ttsVars,
                   streamVars, shutdownVars, events>>

\* cancel() (lines 76-77), called by another thread
TimerCancel ==
    /\ ~timerCancelled
    /\ timerCancelled' = TRUE
    /\ UNCHANGED <<sideVars, ttsVars, streamVars, shutdownPc, events>>

TimerThread ==
    \/ TimerSleep
    \/ TimerStart
    \/ \E run_time \in RunTimes, raised \in BOOLEAN : TimerCall(run_time, raised)
    \/ TimerWait

TimerNext ==
    \/ TimerThread
    \/ TimerCancel

\* a RepeatingTimer from its start()
TimerSpec == Init /\ [][TimerNext]_vars

\* the timer thread keeps running; the function it calls comes to an end
FairTimerSpec == TimerSpec /\ WF_vars(TimerThread)

(***************************************************************************)
(* Sound effects: handle_play_sound and _play_effect.                      *)
(***************************************************************************)
\* `if uri` (line 259)
HasUri(uri) == uri \notin {"", None}

\* faulty variant: the assert of line 260 left out
AnyUriAccepted(uri) == TRUE

\* the condition of the assert of line 260
EffectUriAccepted(uri) == StartsWithFileScheme(uri)

\* uri[len("file://"):] (line 261)
FilePath(uri) ==
    CASE uri = "file:///ok.wav" -> "/ok.wav"
      [] uri = "file:///missing.wav" -> "/missing.wav"
      [] uri = "http://host/x.wav" -> "host/x.wav"

\* the play_foreground call of lines 262-267
EffectCall(uri, volume, mycroft_session_id) ==
    [channel |-> EFFECT, file_path |-> FilePath(uri), volume |-> volume,
     mycroft_session_id |-> mycroft_session_id]

\* handle_play_sound (mycroft.audio.play-sound), with _play_effect
HandlePlaySound(uri, volume, mycroft_session_id) ==
    /\ Len(soundMsgs) < MaxSounds
    /\ IF ~HasUri(uri)
       THEN /\ soundMsgs' = Append(soundMsgs,
                   SoundMessage(uri, volume, mycroft_session_id, "returned"))
            /\ UNCHANGED <<effectCalls, halCalls>>
       ELSE IF ~EffectUriAccepted(uri)
       THEN /\ soundMsgs' = Append(soundMsgs,
                   SoundMessage(uri, volume, mycroft_session_id,
                                "AssertionError"))
            /\ UNCHANGED <<effectCalls, halCalls>>
       ELSE /\ soundMsgs' = Append(soundMsgs,
                   SoundMessage(uri, volume, mycroft_session_id, "returned"))
            /\ effectCalls' = Append(effectCalls,
                   EffectCall(uri, volume, mycroft_session_id))
            /\ halCalls' = Append(halCalls, "play_foreground")
    /\ UNCHANGED <<ttsVars, shutdownVars, events, mediaMsgs, timerVars,
                   config, streamSessionId, bgPlaylist, bgState, bgVolume,
                   bgEnded, timerPc, streamMsgs, nTicks, triggers>>

EffectNext ==
    \/ \E uri \in EffectUris, volume \in Volumes, id \in StreamIds :
          HandlePlaySound(uri, volume, id)
    \/ \E id \in SessionIds : HandleTtsSessionStart(id)
    \/ \E h \in Handlers : ChunkHandler(h)

\* the service with sessions and queued chunks, and play-sound messages
EffectSpec == Init /\ [][EffectNext]_vars

(***************************************************************************)
(* Vocabulary of the properties.                                           *)
(***************************************************************************)
\* positions of the trace holding a message of this type for this session
Positions(type, id) ==
    {i \in 1..Len(events) :
        events[i].type = type /\ events[i].mycroft_session_id = id}

IsChunkEvent(e) ==
    e.type \in {"mycroft.tts.chunk.started", "mycroft.tts.chunk.ended"}

\* the chunk.started and chunk.ended messages of the trace, in order
ChunkEvents == SelectSeq(events, IsChunkEvent)

\* the speech thread is blocked on the semaphore, no handler is half way:
\* nothing happens any more unless the bus delivers a new message
Quiescent ==
    /\ loopPc = "acquire"
    /\ speechReady = 0
    /\ \A h \in Handlers : hpc[h] = "idle"

\* seq is a subsequence of full (order kept)
RECURSIVE IsSubsequence(_, _)
IsSubsequence(seq, full) ==
    IF seq = << >> THEN TRUE
    ELSE IF full = << >> THEN FALSE
    ELSE IF Head(seq) = Head(full)
         THEN IsSubsequence(Tail(seq), Tail(full))
         ELSE IsSubsequence(seq, Tail(full))

StrictlyIncreasing(seq) ==
    \A i, j \in 1..Len(seq) : i < j => seq[i] < seq[j]

IsStartedOf(id, e) ==
    e.type = "mycroft.tts.chunk.started" /\ e.mycroft_session_id = id

RequestOfEvent(e) == TTSRequest(e.uri, e.chunk_index, e.num_chunks)

\* the requests of the chunk.started messages of session id, in order
RECURSIVE StartedRequests(_, _)
StartedRequests(id, trace) ==
    IF trace = << >> THEN << >>
    ELSE (IF IsStartedOf(id, Head(trace))
          THEN << RequestOfEvent(Head(trace)) >> ELSE << >>)
         \o StartedRequests(id, Tail(trace))

\* the requests queued for session id, in the order of their put
RECURSIVE QueuedRequests(_, _)
QueuedRequests(id, log) ==
    IF log = << >> THEN << >>
    ELSE (IF Head(log).mycroft_session_id = id
          THEN << Head(log).request >> ELSE << >>)
         \o QueuedRequests(id, Tail(log))

Indexes(requests) == [i \in 1..Len(requests) |-> requests[i].chunk_index]

(***************************************************************************)
(* C1.  Every opened session eventually emits its termination events, also *)
(* when tts.stop or listening-start cancelled it and no other message      *)
(* arrives: once the service has come to rest with no current session, no  *)
(* registered session is left without its tts.session.ended.               *)
(***************************************************************************)
C1_CancelledSessionEnds ==
    (Quiescent /\ mycroftSessionId = None)
        => \A id \in DOMAIN sessions : sessions[id].is_finished

(***************************************************************************)
(* C2.  A session superseded by the start of another session emits its     *)
(* termination events even if no chunk is ever delivered to either: once   *)
(* the service has come to rest, every registered session other than the   *)
(* current one has been finished.                                          *)
(***************************************************************************)
C2_SupersededSessionEnds ==
    (Quiescent /\ mycroftSessionId # None)
        => \A id \in DOMAIN sessions \ {mycroftSessionId} :
              sessions[id].is_finished

(***************************************************************************)
(* C3.  chunk.started and chunk.ended alternate, each chunk.ended belongs  *)
(* to the chunk.started before it (one chunk in flight, the one the speech *)
(* thread holds), and the chunks of a session start in the order of their  *)
(* put: in strictly increasing index order when they were put in that      *)
(* order.                                                                  *)
(***************************************************************************)
ChunkInFlight == Len(ChunkEvents) % 2 = 1

C3_ChunksPlayInPushOrder ==
    /\ \A i \in 1..Len(ChunkEvents) :
          IF i % 2 = 1
          THEN ChunkEvents[i].type = "mycroft.tts.chunk.started"
          ELSE ChunkEvents[i] =
                  [ChunkEvents[i - 1] EXCEPT !.type = "mycroft.tts.chunk.ended"]
    /\ ChunkInFlight <=> loopPc \in {"wait", "ended"}
    /\ ChunkInFlight =>
          ChunkEvents[Len(ChunkEvents)] =
             ChunkMessage("mycroft.tts.chunk.started", loopSession, loopRequest)
    /\ \A id \in SessionIds :
          /\ IsSubsequence(StartedRequests(id, events), QueuedRequests(id, queued))
          /\ StrictlyIncreasing(Indexes(QueuedRequests(id, queued)))
                => StrictlyIncreasing(Indexes(StartedRequests(id, events)))

\* both chunks of a two-chunk utterance, put in order, have been played
C3_Witness ==
    /\ Len(ChunkEvents) = 4
    /\ \A i \in 1..4 : ChunkEvents[i].mycroft_session_id = "A"
    /\ ChunkEvents[1].chunk_index = 0
    /\ ChunkEvents[3].chunk_index = 1
    /\ Len(QueuedRequests("A", queued)) = 2

(***************************************************************************)
(* C4.  A chunk whose session id differs from the current session id (or   *)
(* that arrives when there is no current session) is dropped: the handler  *)
(* keeps nothing of it, no queue changes, the semaphore is not released    *)
(* and nothing is emitted.  Only a chunk of the current session is kept.   *)
(***************************************************************************)
C4_ForeignChunkDropped ==
    [][nChunks' # nChunks =>
          \/ /\ \E h \in Handlers :
                   /\ hpc[h] = "idle"
                   /\ hpc'[h] = "checked"
                   /\ hmsg'[h].mycroft_session_id = mycroftSessionId
             /\ UNCHANGED <<sessions, speechReady, events, queued>>
          \/ UNCHANGED <<sessions, speechReady, events, queued, hpc, hmsg>>]_vars

\* one session was started, one chunk (of another id) arrived and is gone
C4_Witness ==
    /\ nChunks = 1
    /\ StartsDelivered = 1
    /\ nStops = 0
    /\ mycroftSessionId \in SessionIds
    /\ \A h \in Handlers : hpc[h] = "idle"
    /\ queued = << >>
    /\ sessions[mycroftSessionId].chunk_queue = << >>

(***************************************************************************)
(* C5.  tts.session.ended is emitted once per started session: never more  *)
(* often for an id than sessions were started with it, whether the wait    *)
(* ended by the media.ended message or by the timeout and also when the    *)
(* session is cleaned up later; and the chunk.ended of a last chunk is     *)
(* never left without the tts.session.ended of its session.                *)
(***************************************************************************)
C5_SessionEndedOnce ==
    \A id \in SessionIds :
       /\ Cardinality(Positions("mycroft.tts.session.ended", id)) <= nStarts[id]
       /\ \A i \in Positions("mycroft.tts.chunk.ended", id) :
             is_last_chunk(RequestOfEvent(events[i]))
                => \E j \in Positions("mycroft.tts.session.ended", id) : j <= i + 1

\* session A finished with its last chunk, whose media.ended message was
\* delivered, and was later removed by the clean-up
C5_Witness ==
    /\ nStarts["A"] = 1
    /\ "A" \notin DOMAIN sessions
    /\ Cardinality(Positions("mycroft.tts.session.ended", "A")) = 1
    /\ \E i \in Positions("mycroft.tts.chunk.ended", "A") :
          /\ is_last_chunk(RequestOfEvent(events[i]))
          /\ events[i].uri = "file:///ok.wav"
          /\ events[i + 1] = SessionMessage("mycroft.tts.session.ended", "A")

(***************************************************************************)
(* C6.  A chunk queued for session A before session B was started is never *)
(* played: the chunk the speech thread takes always belongs to the session *)
(* that is current when it is taken.                                       *)
(***************************************************************************)
C6_PoppedChunkIsOfCurrentSession ==
    [][\A id \in SessionIds :
          Positions("mycroft.tts.chunk.started", id)'
              # Positions("mycroft.tts.chunk.started", id)
          => mycroftSessionId = id]_vars

(***************************************************************************)
(* C7.  tts.session.ended is always followed at once by audio_output_end   *)
(* of the same session, and for the current session it is emitted only     *)
(* right after the chunk.ended of a last chunk of that session.            *)
(***************************************************************************)
C7_EndedPairs ==
    \A i \in 1..Len(events) :
       events[i].type = "mycroft.tts.session.ended"
          => /\ i + 1 <= Len(events)
             /\ events[i + 1] = SessionMessage("recognizer_loop:audio_output_end",
                                               events[i].mycroft_session_id)

C7_SessionEndsAfterLastChunk ==
    /\ []C7_EndedPairs
    /\ [][\A id \in SessionIds :
             (/\ Positions("mycroft.tts.session.ended", id)'
                    # Positions("mycroft.tts.session.ended", id)
              /\ mycroftSessionId = id)
             => /\ is_last_chunk(loopRequest)
                /\ events' = Append(events,
                       ChunkMessage("mycroft.tts.chunk.ended", id, loopRequest))
                       \o FinishTtsSession(id)]_vars

\* the trace of a two-chunk utterance of session A
C7_Witness ==
    LET r0 == TTSRequest("file:///ok.wav", 0, 2)
        r1 == TTSRequest("file:///ok.wav", 1, 2)
    IN  events =
          << SessionMessage("recognizer_loop:audio_output_start", "A"),
             ChunkMessage("mycroft.tts.chunk.started", "A", r0),
             ChunkMessage("mycroft.tts.chunk.ended", "A", r0),
             SessionMessage("recognizer_loop:audio_output_start", "A"),
             ChunkMessage("mycroft.tts.chunk.started", "A", r1),
             ChunkMessage("mycroft.tts.chunk.ended", "A", r1),
             SessionMessage("mycroft.tts.session.ended", "A"),
             SessionMessage("recognizer_loop:audio_output_end", "A") >>

(***************************************************************************)
(* C8.  The wait for the hardware is bounded: a chunk that started is      *)
(* always followed by its chunk.ended, with no assumption that the         *)
(* media.ended message is ever delivered.                                  *)
(***************************************************************************)
C8_StartedChunkEnds == ChunkInFlight ~> ~ChunkInFlight

\* a chunk ended although its media still plays and no media.ended message
\* was sent or delivered for it
C8_Witness ==
    /\ events # << >>
    /\ events[Len(events)].type = "mycroft.tts.chunk.ended"
    /\ halSpeech = events[Len(events)].mycroft_session_id
    /\ mediaEnded = {}
    /\ HasSession(halSpeech)
    /\ ~sessions[halSpeech].speech_finished

(***************************************************************************)
(* C9.  An exception raised while a wake is processed does not end the     *)
(* speech thread: the thread leaves its loop only when the service is shut *)
(* down.                                                                   *)
(***************************************************************************)
C9_LoopSurvivesException == loopPc = "exited" => ~isRunning

(***************************************************************************)
(* C10.  A chunk whose file is missing, or for which the HAL reports no    *)
(* duration, is not waited for, but its chunk.started is emitted, the      *)
(* speech thread goes on, and after a last chunk the session is ended.     *)
(***************************************************************************)
C10_MissingFileSkipped ==
    /\ loopPc = "wait" => IsFile(loopRequest.uri) /\ durationSec # NoDuration
    /\ (loopPc = "ended" /\ (~IsFile(loopRequest.uri) \/ durationSec = NoDuration))
          => events[Len(events)] =
                ChunkMessage("mycroft.tts.chunk.started", loopSession, loopRequest)
    /\ loopPc = "exited" => ~StartsWithFileScheme(loopRequest.uri)
    /\ \A i \in 1..Len(events) :
          (/\ events[i].type = "mycroft.tts.chunk.ended"
           /\ ~IsFile(events[i].uri)
           /\ is_last_chunk(RequestOfEvent(events[i])))
          => \E j \in Positions("mycroft.tts.session.ended",
                                events[i].mycroft_session_id) : j <= i + 1

\* the first chunk of a session had no file, the second was played, and
\* the session ended
C10_Witness ==
    /\ Len(ChunkEvents) = 4
    /\ ChunkEvents[2].uri = "file:///missing.wav"
    /\ ChunkEvents[2].chunk_index = 0
    /\ ChunkEvents[3].mycroft_session_id = ChunkEvents[2].mycroft_session_id
    /\ ChunkEvents[4].uri = "file:///ok.wav"
    /\ ChunkEvents[4].chunk_index = 1
    /\ events[Len(events)] = SessionMessage("recognizer_loop:audio_output_end",
                                            ChunkEvents[4].mycroft_session_id)

(***************************************************************************)
(* Vocabulary of the stream properties.                                    *)
(***************************************************************************)
Last(seq) == seq[Len(seq)]

\* a mycroft.audio.service.* message is delivered in this step
StreamMessageDelivered == Len(streamMsgs') = Len(streamMsgs) + 1

IsPlayWithTracks(m) ==
    m.type = "mycroft.audio.service.play" /\ m.tracks # << >>

\* the session id of the most recent play message that had tracks
RECURSIVE OwnerOfMostRecentPlay(_)
OwnerOfMostRecentPlay(msgs) ==
    IF msgs = << >> THEN None
    ELSE IF IsPlayWithTracks(Last(msgs)) THEN Last(msgs).mycroft_session_id
    ELSE OwnerOfMostRecentPlay(SubSeq(msgs, 1, Len(msgs) - 1))

\* the message the service emits on a pause, resume or stop it accepts
StateChangeEvent(type) ==
    CASE type = "mycroft.audio.service.pause" -> "mycroft.audio.service.paused"
      [] type = "mycroft.audio.service.resume" -> "mycroft.audio.service.resumed"
      [] type = "mycroft.audio.service.stop" -> "mycroft.audio.service.stopped"

(***************************************************************************)
(* C11.  The stream owner is the session id of the most recent play        *)
(* message with tracks.  A pause, resume or stop message whose session id  *)
(* is not the owner makes no HAL call, changes neither the owner nor the   *)
(* stream and emits nothing; one with the owner's id makes one HAL call    *)
(* and emits paused, resumed or stopped with that id.                      *)
(***************************************************************************)
C11_StreamControlOnlyByOwner ==
    /\ [](streamSessionId = OwnerOfMostRecentPlay(streamMsgs))
    /\ [][(StreamMessageDelivered /\ ~IsPlayWithTracks(Last(streamMsgs')))
           => LET m == Last(streamMsgs') IN
              IF m.type # "mycroft.audio.service.play"
                    /\ m.mycroft_session_id = streamSessionId
              THEN /\ Len(halCalls') = Len(halCalls) + 1
                   /\ events' = Append(events,
                          SessionMessage(StateChangeEvent(m.type),
                                         m.mycroft_session_id))
                   /\ UNCHANGED <<streamSessionId, bgPlaylist>>
              ELSE UNCHANGED <<halCalls, streamSessionId, bgPlaylist,
                               bgState, events>>]_vars

\* play by A, pause by B (ignored), pause by A
C11_Witness ==
    /\ streamMsgs =
          << StreamMessage("mycroft.audio.service.play", "A",
                 << PairTrack("http://host/stream", "audio/mpeg"),
                    StrTrack("file:///song.mp3") >>),
             StreamMessage("mycroft.audio.service.pause", "B", << >>),
             StreamMessage("mycroft.audio.service.pause", "A", << >>) >>
    /\ events = << SessionMessage("mycroft.audio.service.playing", "A"),
                   SessionMessage("mycroft.audio.service.paused", "A") >>
    /\ halCalls = << "stop_background", "start_background", "pause_background" >>
    /\ bgState = "paused"

(***************************************************************************)
(* C12.  A stop message of the stream owner pauses the stream: the HAL     *)
(* call is pause_background, never stop_background, the owner and the      *)
(* playlist stay, stopped is emitted; a later resume message of the owner  *)
(* makes the paused stream play again and emits resumed.                   *)
(***************************************************************************)
C12_StopIsPause ==
    [][StreamMessageDelivered
         => LET m == Last(streamMsgs') IN
            /\ (m.type = "mycroft.audio.service.stop"
                   /\ m.mycroft_session_id = streamSessionId)
               => /\ halCalls' = Append(halCalls, "pause_background")
                  /\ UNCHANGED <<streamSessionId, bgPlaylist>>
                  /\ bgState = "playing" => bgState' = "paused"
                  /\ bgState # "playing" => bgState' = bgState
                  /\ events' = Append(events,
                         SessionMessage("mycroft.audio.service.stopped",
                                        m.mycroft_session_id))
            /\ (m.type = "mycroft.audio.service.resume"
                   /\ m.mycroft_session_id = streamSessionId
                   /\ bgState = "paused")
               => /\ halCalls' = Append(halCalls, "resume_background")
                  /\ bgState' = "playing"
                  /\ UNCHANGED <<streamSessionId, bgPlaylist>>
                  /\ events' = Append(events,
                         SessionMessage("mycroft.audio.service.resumed",
                                        m.mycroft_session_id))]_vars

\* play by A, stop by A, resume by A: the stream plays its playlist again
C12_Witness ==
    /\ Len(streamMsgs) = 3
    /\ streamMsgs[2] = StreamMessage("mycroft.audio.service.stop", "A", << >>)
    /\ streamMsgs[3] = StreamMessage("mycroft.audio.service.resume", "A", << >>)
    /\ events = << SessionMessage("mycroft.audio.service.playing", "A"),
                   SessionMessage("mycroft.audio.service.stopped", "A"),
                   SessionMessage("mycroft.audio.service.resumed", "A") >>
    /\ bgState = "playing"
    /\ bgPlaylist = << "http://host/stream", "file:///song.mp3" >>
    /\ "stop_background" \notin {halCalls[i] : i \in 3..Len(halCalls)}

(***************************************************************************)
(* C13.  The position timer emits service.position only while the          *)
(* background stream plays, also when a pause or stop is handled between   *)
(* its test and its emit, and never with a negative position.              *)
(***************************************************************************)
C13_PositionOnlyWhilePlaying ==
    [][(/\ Len(events') = Len(events) + 1
        /\ Last(events').type = "mycroft.audio.service.position")
       => /\ IsBackgroundPlaying
          /\ Last(events').position_ms >= 0]_vars

(***************************************************************************)
(* C14.  shutdown() completes: once it has begun, it reaches the tear-down *)
(* of the HAL; the join returns, and the HAL is torn down, only after the  *)
(* speech thread has left its loop, which it does after at most the chunk  *)
(* it has in flight; the thread that has left its loop stays out of it and *)
(* starts no chunk.                                                        *)
(***************************************************************************)
C14_ShutdownCompletes ==
    /\ [](shutdownPc \in {"joined", "down"} => loopPc = "exited")
    /\ [][loopPc = "exited"
            => /\ loopPc' = "exited"
               /\ events' = events]_vars
    /\ (shutdownPc # "running") ~> (shutdownPc = "down")

\* shutdown ran to its end: the speech thread, whose last message was the
\* chunk.ended of a chunk, has left its loop with a permit to spare, and the
\* tear-down of the HAL was the last HAL call
C14_Witness ==
    /\ shutdownPc = "down"
    /\ loopPc = "exited"
    /\ Last(halCalls) = "shutdown"
    /\ speechReady >= 1
    /\ events # << >>
    /\ Last(events).type = "mycroft.tts.chunk.ended"

(***************************************************************************)
(* C15.  The background volume is a level: it is the full volume less the  *)
(* duck factor after a listening-start or speech-output-start message,     *)
(* however many of them came before, and the full volume after a           *)
(* listening-end or speech-output-end message and before any message.      *)
(***************************************************************************)
DuckTriggers ==
    {"recognizer_loop:record_begin", "recognizer_loop:audio_output_start"}

C15_DuckingIsLevelBased ==
    bgVolume = IF triggers # << >> /\ Last(triggers) \in DuckTriggers
               THEN FullVolume - config.duck_while_listening
               ELSE FullVolume

\* two ducks lowered the volume once, one unduck restored it
C15_Witness ==
    /\ triggers = << "recognizer_loop:record_begin",
                     "recognizer_loop:audio_output_start",
                     "recognizer_loop:record_end" >>
    /\ config.duck_while_listening = 30
    /\ bgVolume = FullVolume
    /\ Len(halCalls) >= 3

(***************************************************************************)
(* C16.  Every wake of the speech thread cleans the registry: after the    *)
(* step that takes a permit of the semaphore, also when there is no        *)
(* current session, no session other than the current one is registered    *)
(* any more.                                                               *)
(***************************************************************************)
C16_EveryWakeCleansUp ==
    [][speechReady' < speechReady
          => DOMAIN sessions' \subseteq {mycroftSessionId'}]_vars

(***************************************************************************)
(* C17.  The registry and the current session id are read and written      *)
(* under the session lock only: while a chunk handler is between its check *)
(* of the session id and its lookup and put, no other context changes the  *)
(* current session id or the registered sessions.                          *)
(***************************************************************************)
C17_RegistryAccessUnderLock ==
    [][(\E h \in Handlers : hpc[h] = "checked" /\ hpc'[h] = "checked")
          => /\ mycroftSessionId' = mycroftSessionId
             /\ DOMAIN sessions' = DOMAIN sessions]_vars

C19_SessionStartEffect ==
    [][\A id \in SessionIds :
          nStarts'[id] # nStarts[id]
          => /\ mycroftSessionId' = id
             /\ DOMAIN sessions' = DOMAIN sessions \cup {id}
             /\ \A other \in DOMAIN sessions \ {id} :
                   sessions'[other] = sessions[other]
             /\ sessions'[id] =
                   IF HasSession(id)
                   THEN [sessions[id] EXCEPT !.is_finished = FALSE]
                   ELSE TTSSession(id)
             /\ UNCHANGED <<events, speechReady, queued>>
             /\ IF id # mycroftSessionId
                THEN halSpeech' = None /\ mediaEnded' = HalEndedAfterStop
                ELSE UNCHANGED <<halSpeech, mediaEnded>>]_vars

\* session A was started again while its chunk played: the chunk still
\* plays, with one more chunk in its queue
C19_Witness ==
    /\ nStarts["A"] = 2
    /\ mycroftSessionId = "A"
    /\ loopPc = "wait"
    /\ halSpeech = "A"
    /\ startMark["A"] = 2
    /\ Len(sessions["A"].chunk_queue) = 1

(***************************************************************************)
(* C20.  A session id can be used again: the last chunk of an utterance,   *)
(* accepted after the latest session.start of its id and played while the  *)
(* id is current, is followed by tts.session.ended and audio_output_end of *)
(* the id, also when that session.start arrived while a chunk of the       *)
(* utterance before was in flight.                                         *)
(***************************************************************************)
\* the place, among the chunks put for id, of the chunk the speech thread
\* holds: the one put before those that wait in the queue
InFlightIndex(id) ==
    Len(QueuedRequests(id, queued)) - Len(sessions[id].chunk_queue)

\* the chunk in flight is the first last chunk accepted for id, and put,
\* after the latest session.start of id
IsLastChunkOfLatestStart(id) ==
    /\ is_last_chunk(loopRequest)
    /\ InFlightIndex(id) > startMark[id]
    /\ \A k \in (startMark[id] + 1)..(InFlightIndex(id) - 1) :
          ~is_last_chunk(QueuedRequests(id, queued)[k])

C20_ReusedSessionEnds ==
    [][\A id \in SessionIds :
          (/\ loopPc = "ended"
           /\ loopPc' # "ended"
           /\ loopSession = id
           /\ mycroftSessionId = id
           /\ IsLastChunkOfLatestStart(id))
          => events' = Append(events,
                 ChunkMessage("mycroft.tts.chunk.ended", id, loopRequest))
                 \o FinishTtsSession(id)]_vars

(***************************************************************************)
(* C21.  Listening-start and tts.stop take priority over speech: the       *)
(* handler clears the current session id and stops the SPEECH channel      *)
(* (listening-start also ducks the background); from then on, until a      *)
(* session.start is delivered (the only step that sets a current session), *)
(* no chunk.started is emitted, and a chunk message that arrives is        *)
(* dropped.                                                                *)
(***************************************************************************)
\* a tts.stop or a record_begin message is handled in this step
StopDelivered == nStops' # nStops \/ triggers' # triggers

\* a message of this type is emitted in this step
Emitted(type) ==
    \E i \in (Len(events) + 1)..Len(events') : events'[i].type = type

C21_ListeningStopsSpeech ==
    /\ [][StopDelivered
            => /\ mycroftSessionId' = None
               /\ halSpeech' = None
               /\ triggers' # triggers
                     => bgVolume' = FullVolume - config.duck_while_listening]_vars
    /\ [][(mycroftSessionId = None /\ nChunks' # nChunks)
            => UNCHANGED <<hpc, hmsg, sessions, speechReady, queued, events>>]_vars
    /\ [][Emitted("mycroft.tts.chunk.started") => mycroftSessionId # None]_vars

(***************************************************************************)
(* C22.  Every chunk queued for the current session has a wake of the      *)
(* speech thread to come: the permits of the semaphore, with the permit of *)
(* a wake that has not yet reached the queue, are never fewer than the     *)
(* chunks in the queue of the current session, also after a tts.stop       *)
(* followed by a session.start of the same id.                             *)
(***************************************************************************)
\* the permit the speech thread took in an iteration that has resolved its
\* session and has not tested the queue yet
PermitInHand == IF loopPc = "dequeue" THEN 1 ELSE 0

C22_PermitsCoverQueuedChunks ==
    HasSession(mycroftSessionId)
       => speechReady + PermitInHand
             >= Len(sessions[mycroftSessionId].chunk_queue)

(***************************************************************************)
(* C23.  The wait for a chunk ends only by the media.ended message of that *)
(* chunk's own playback or by the timeout.  speech_finished is cleared     *)
(* only by the speech thread, in the step that plays a chunk, and so never *)
(* during a wait; a media.ended message of the SPEECH channel sets only    *)
(* the speech_finished of the session its media id names; and while the    *)
(* thread waits for a chunk that the HAL still plays, speech_finished of   *)
(* its session is not set, so that no message of an earlier playback or of *)
(* a stop of the channel ends the wait.                                    *)
(***************************************************************************)
\* speech_finished of session id goes from `from` to `to` in this step
LatchChanges(id, from, to) ==
    /\ id \in DOMAIN sessions /\ id \in DOMAIN sessions'
    /\ sessions[id].speech_finished = from
    /\ sessions'[id].speech_finished = to

\* the HAL still plays the chunk the speech thread waits for
WaitedChunkPlays == loopPc = "wait" /\ halSpeech = loopSession

C23_WaitEndsByOwnPlayback ==
    /\ [][\A id \in SessionIds :
            LatchChanges(id, TRUE, FALSE)
            => /\ loopPc = "dequeue" /\ loopSession = id
               /\ loopPc' \in {"wait", "ended"}
               /\ Emitted("mycroft.tts.chunk.started")]_vars
    /\ [][\A id \in SessionIds :
            LatchChanges(id, FALSE, TRUE)
            => /\ id \in mediaEnded
               /\ mediaEnded' = mediaEnded \ {id}
               /\ \A other \in DOMAIN sessions \ {id} :
                     other \in DOMAIN sessions'
                     /\ sessions'[other] = sessions[other]]_vars
    /\ [](WaitedChunkPlays => ~sessions[loopSession].speech_finished)

(***************************************************************************)
(* C24.  A media.ended message with background = True that is not of the   *)
(* SPEECH channel emits one mycroft.audio.queue_end, which carries the     *)
(* session id of the stream owner, and leaves the TTS sessions, the        *)
(* current session and the semaphore as they are; a media.ended message of *)
(* the SPEECH channel emits nothing, whatever its background flag.         *)
(***************************************************************************)
\* handle_media_finished handles a message in this step
MediaMessageDelivered == Len(mediaMsgs') = Len(mediaMsgs) + 1

C24_BackgroundEndEmitsQueueEnd ==
    [][MediaMessageDelivered
         => LET m == Last(mediaMsgs') IN
            /\ (m.background /\ m.channel # SPEECH)
               => /\ events' = Append(events,
                         SessionMessage("mycroft.audio.queue_end",
                                        streamSessionId))
                  /\ UNCHANGED <<ttsVars, streamSessionId>>
            /\ m.channel = SPEECH => events' = events]_vars

\* session A is registered and B owns the stream: a SPEECH message with the
\* background flag set the latch of A and emitted nothing, a background
\* message with media id A emitted queue_end of B and left A as it was
C24_Witness ==
    /\ mediaMsgs = << MediaMessage(SPEECH, TRUE, "A"),
                      MediaMessage(None, TRUE, "A") >>
    /\ streamSessionId = "B"
    /\ HasSession("A")
    /\ sessions["A"].speech_finished
    /\ Last(events) = SessionMessage("mycroft.audio.queue_end", "B")
    /\ Len(SelectSeq(events,
              LAMBDA e : e.type = "mycroft.audio.queue_end")) = 1

(***************************************************************************)
(* C25.  A chunk that passed the check of its session id is queued also    *)
(* when the registry has no record of its session: the handler creates the *)
(* record (get-or-create), puts the chunk into its queue and releases a    *)
(* permit.                                                                 *)
(***************************************************************************)
C25_ChunkCreatesSession ==
    [][\A h \in Handlers :
          (hpc[h] = "checked" /\ hpc'[h] = "idle")
          => LET id == hmsg[h].mycroft_session_id IN
             /\ id \in DOMAIN sessions'
             /\ sessions'[id].chunk_queue =
                   (IF HasSession(id) THEN sessions[id].chunk_queue ELSE << >>)
                      \o << hmsg[h].request >>
             /\ speechReady' = speechReady + 1]_vars

(***************************************************************************)
(* C26.  The periodic timer waits max(0, interval - elapsed) after each    *)
(* call, elapsed being the run time of that call: the wait is never        *)
(* negative, it is interval - elapsed when elapsed <= interval and 0       *)
(* otherwise; the first call begins one interval after the start of the    *)
(* timer, and the call after one that ran for at most the interval begins  *)
(* exactly one interval after that one began.                              *)
(***************************************************************************)
C26_TimerCompensates ==
    /\ [](secondsToWait >= 0)
    /\ [][(runPc = "ran" /\ runPc' = "top")
            => LET elapsed == Last(invocations).run_time IN
               secondsToWait' = IF elapsed <= Interval
                                THEN Interval - elapsed ELSE 0]_vars
    /\ [][(runPc = "top" /\ runPc' = "woke") => now' = now + secondsToWait]_vars
    /\ [](invocations # << >> => invocations[1].start_time = Interval)
    /\ [](\A k \in 1..(Len(invocations) - 1) :
             invocations[k].run_time <= Interval
             => invocations[k + 1].start_time
                   = invocations[k].start_time + Interval)

\* three calls: a short one, one longer than the interval, which delays the
\* third, and one as long as the interval, after which the wait is 0
C26_Witness ==
    /\ Len(invocations) = 3
    /\ invocations[1].run_time = 1 /\ invocations[1].start_time = Interval
    /\ invocations[2].run_time = Interval + 1
    /\ invocations[2].start_time = 2 * Interval
    /\ invocations[3].run_time = Interval
    /\ invocations[3].start_time = 3 * Interval + 1
    /\ runPc = "top"
    /\ secondsToWait = 0

(***************************************************************************)
(* C27.  An exception raised by the function is caught and does not stop   *)
(* the timer: run() goes on after a call that raised as after one that     *)
(* returned, and the function is called again and again until cancel() is  *)
(* called; once it is called, the timer thread comes to its end, and at    *)
(* most one call of the function begins after it.                          *)
(***************************************************************************)
\* the function is called in this step
FunctionCalled == Len(invocations') = Len(invocations) + 1

\* the calls of the function that began after cancel() was called
CallsAfterCancel == {k \in 1..Len(invocations) : invocations[k].cancelled}

C27_TimerSurvivesException ==
    /\ [][(FunctionCalled /\ Last(invocations').raised) => runPc' = "ran"]_vars
    /\ [][(runPc # "done" /\ runPc' = "done") => timerCancelled]_vars
    /\ <>(timerCancelled \/ Len(invocations) = MaxInvocations)
    /\ [](Cardinality(CallsAfterCancel) <= 1)
    /\ timerCancelled ~> (runPc = "done")

\* the first call raised, the second returned, cancel() was called between
\* the test of line 92 and the third call, which raised: the thread ended
\* at line 104
C27_Witness ==
    /\ Len(invocations) = 3
    /\ invocations[1].raised
    /\ ~invocations[2].raised
    /\ invocations[3].raised
    /\ CallsAfterCancel = {3}
    /\ runPc = "done"

(***************************************************************************)
(* C28.  A play-sound message never changes the session registry, the      *)
(* current session id, a chunk queue or the semaphore, and emits nothing.  *)
(* With a file:// uri it makes one HAL call, a play_foreground on the      *)
(* EFFECT channel of the path behind the scheme, with the volume and the   *)
(* session id of the message.  With a uri of another scheme its handler    *)
(* fails by the assert and makes no HAL call; with an empty or absent uri  *)
(* it returns and makes no HAL call.                                       *)
(***************************************************************************)
\* a mycroft.audio.play-sound message is handled in this step
SoundDelivered == Len(soundMsgs') = Len(soundMsgs) + 1

C28_EffectIsFireAndForget ==
    [][SoundDelivered
         => LET m == Last(soundMsgs') IN
            /\ UNCHANGED <<ttsVars, events>>
            /\ m.uri = "file:///ok.wav"
               => /\ m.outcome = "returned"
                  /\ halCalls' = Append(halCalls, "play_foreground")
                  /\ effectCalls' = Append(effectCalls,
                         [channel |-> EFFECT, file_path |-> "/ok.wav",
                          volume |-> m.volume,
                          mycroft_session_id |-> m.mycroft_session_id])
            /\ m.uri = "http://host/x.wav"
               => /\ m.outcome = "AssertionError"
                  /\ UNCHANGED <<halCalls, effectCalls>>
            /\ m.uri \in {"", None}
               => /\ m.outcome = "returned"
                  /\ UNCHANGED <<halCalls, effectCalls>>]_vars

\* session A is current with a chunk in its queue and a permit for it; of
\* two play-sound messages the one with an http uri was rejected and the
\* one with a file uri was played at once on the EFFECT channel
C28_Witness ==
    /\ Len(soundMsgs) = 2
    /\ soundMsgs[1].uri = "http://host/x.wav"
    /\ soundMsgs[1].outcome = "AssertionError"
    /\ soundMsgs[2].uri = "file:///ok.wav"
    /\ effectCalls = << [channel |-> EFFECT, file_path |-> "/ok.wav",
                         volume |-> 50, mycroft_session_id |-> "B"] >>
    /\ halCalls = << "play_foreground" >>
    /\ mycroftSessionId = "A"
    /\ Len(sessions["A"].chunk_queue) = 1
    /\ speechReady = 2

====
